---- MODULE Spec2Model ----
(***************************************************************************)
(* A model of compath_utils.CompathManager (src/src/compath_utils/         *)
(* manager.py): the construction-time checks of the class-level models,    *)
(* and the read-only queries query_gene_set, query_gene and                *)
(* export_gene_sets over a store of proteins and pathways.                 *)
(*                                                                         *)
(* The store is the relational store behind the SQLAlchemy session: a      *)
(* table of protein rows and a table of pathway rows, in row order.  A     *)
(* protein row carries its hgnc_symbol and the identifiers that its        *)
(* get_pathways_ids() yields (an iterable, kept as a sequence); a pathway  *)
(* row carries its identifier (unique) and its name (not unique).          *)
(***************************************************************************)
EXTENDS Integers, Sequences, FiniteSets, TLC

VARIABLES
    manager,             \* the manager object: class-level models, outcome of __init__
    proteins,            \* protein table: sequence of [hgnc_symbol, pathway_ids]
    pathways,            \* pathway table: sequence of [test_id, name]
    pc,                  \* position of the running call
    op,                  \* the operation being run
    arg,                 \* its argument
    pathway_counter,     \* query_gene_set: Counter, pathway id -> matches
    pending,             \* pathway ids the loop has still to visit, in order
    enrichment_results,  \* query_gene_set: the dict under construction / returned
    gene_tuples,         \* query_gene: the list under construction / returned
    gene_sets,           \* export_gene_sets: the dict returned
    exc,                 \* exception that ended the call ("none" if none)
    calls,               \* external calls issued by the running call, in order
    deletes,             \* pathway rows removed by the external store so far
    dirty                \* the store changed while the call was running

vars == <<manager, proteins, pathways, pc, op, arg, pathway_counter, pending,
          enrichment_results, gene_tuples, gene_sets, exc, calls, deletes, dirty>>

storeVars == <<proteins, pathways, deletes>>
callVars == <<pc, op, arg, pathway_counter, pending, enrichment_results,
              gene_tuples, gene_sets, exc, calls, dirty>>

----------------------------------------------------------------------------
(* Bounds *)

MaxProteins == 1     \* protein rows of a generated dataset
MaxIds == 2          \* length of a protein's pathway-id list
MaxInput == 3        \* length of the symbol sequence given to query_gene_set
MaxDeletes == 1      \* pathway rows the external store removes in a run

Symbols == {"HGNC:0", "HGNC:1"}
PathwayIdSeq == <<"test:0", "test:1">>
Names == {"Pathway 0", "Pathway 1"}

----------------------------------------------------------------------------
(* Generic helpers *)

Range(s) == {s[i] : i \in DOMAIN s}

SeqsUpTo(S, n) == UNION {[1..k -> S] : k \in 0..n}

EmptyMap == [x \in {} |-> 0]

\* d[k] = v on a Python dict modelled as a function
DictSet(d, k, v) == [x \in (DOMAIN d) \cup {k} |-> IF x = k THEN v ELSE d[x]]

----------------------------------------------------------------------------
(* Construction: CompathManager.__init__ *)

PyNone == "None"
PyEllipsis == "Ellipsis"

PathwayModels == {PyNone, PyEllipsis, "TestPathway", "BadTestPathway"}
ProteinModels == {PyNone, PyEllipsis, "TestProtein", "BadTestProtein"}
NamespaceModels == {PyNone, PyEllipsis, "TestNamespace"}
\* flask_admin_models: None, Ellipsis, or a list (possibly empty)
FlaskAdminModels == {[t |-> PyNone, items |-> <<>>],
                     [t |-> PyEllipsis, items |-> <<>>],
                     [t |-> "list", items |-> <<>>],
                     [t |-> "list", items |-> <<"TestAdmin">>]}

\* Python truthiness of a class-level attribute: None is false, Ellipsis and
\* classes are true
Truthy(x) == x # PyNone

\* Truthiness of flask_admin_models: None and the empty list are false
TruthyList(x) == x.t # PyNone /\ ~(x.t = "list" /\ x.items = <<>>)

\* `not x or x is ...`
Unset(x) == ~Truthy(x) \/ x = PyEllipsis

UnsetList(x) == ~TruthyList(x) \/ x.t = PyEllipsis

\* A mis-ordered initialiser that checks protein_model first
CompathManagerInitProteinFirst(m) ==
    IF Unset(m.protein_model)
    THEN [m EXCEPT !.state = "failed", !.exc = "CompathManagerProteinModelError"]
    ELSE IF Unset(m.pathway_model)
    THEN [m EXCEPT !.state = "failed", !.exc = "CompathManagerPathwayModelError"]
    ELSE [m EXCEPT !.state = "constructed", !.parent_init_ran = TRUE]

\* CompathManager.__init__ applied to an object m whose class-level
\* attributes are set; yields the object after the call, with the exception
\* raised (if any) and whether super().__init__ ran
CompathManagerInit(m) ==
    IF Unset(m.pathway_model)
    THEN [m EXCEPT !.state = "failed", !.exc = "CompathManagerPathwayModelError"]
    ELSE LET m1 == IF Unset(m.namespace_model)
                   THEN [m EXCEPT !.namespace_model = m.pathway_model]
                   ELSE m
         IN  IF Unset(m1.protein_model)
             THEN [m1 EXCEPT !.state = "failed",
                             !.exc = "CompathManagerProteinModelError"]
             ELSE LET m2 == IF UnsetList(m1.flask_admin_models)
                            THEN [m1 EXCEPT !.flask_admin_models =
                                     [t |-> "list",
                                      items |-> <<m1.pathway_model, m1.protein_model>>]]
                            ELSE m1
                  IN  [m2 EXCEPT !.state = "constructed", !.parent_init_ran = TRUE]

NewManager(pm, prm, ns, fam) ==
    [pathway_model |-> pm, protein_model |-> prm, namespace_model |-> ns,
     flask_admin_models |-> fam, state |-> "new", exc |-> "none",
     parent_init_ran |-> FALSE]

\* ManagerOkay of the tests: both models set, after a successful construction
ManagerOkay ==
    CompathManagerInit(NewManager("TestPathway", "TestProtein", PyEllipsis,
                                  [t |-> PyEllipsis, items |-> <<>>]))

IdleCall ==
    /\ pc = "idle"
    /\ op = "none"
    /\ arg = <<>>
    /\ pathway_counter = EmptyMap
    /\ pending = <<>>
    /\ enrichment_results = EmptyMap
    /\ gene_tuples = <<>>
    /\ gene_sets = EmptyMap
    /\ exc = "none"
    /\ calls = <<>>
    /\ dirty = FALSE

\* Initial states of the construction specification: a subclass with any
\* combination of class-level attributes, not yet instantiated; empty store
InitConstruct ==
    /\ \E pm \in PathwayModels, prm \in ProteinModels,
          ns \in NamespaceModels, fam \in FlaskAdminModels :
            manager = NewManager(pm, prm, ns, fam)
    /\ proteins = <<>>
    /\ pathways = <<>>
    /\ deletes = 0
    /\ IdleCall

\* Instantiating the subclass
Construct ==
    /\ manager.state = "new"
    /\ manager' = CompathManagerInit(manager)
    /\ UNCHANGED <<storeVars, callVars>>

NextConstruct == Construct

SpecConstruct == InitConstruct /\ [][NextConstruct]_vars

----------------------------------------------------------------------------
(* The store *)

PathwayIds == Range(PathwayIdSeq)

IdLists == SeqsUpTo(PathwayIds, MaxIds)

ProteinRows == [hgnc_symbol : Symbols, pathway_ids : IdLists]

ProteinTables == SeqsUpTo(ProteinRows, MaxProteins)

\* The pathway table holding the rows of the identifiers in E, in identifier
\* order, named by nm
PathwayTable(E, nm) ==
    LET F[i \in 0..Len(PathwayIdSeq)] ==
            IF i = 0 THEN <<>>
            ELSE IF PathwayIdSeq[i] \in E
                 THEN Append(F[i - 1], [test_id |-> PathwayIdSeq[i],
                                        name |-> nm[PathwayIdSeq[i]]])
                 ELSE F[i - 1]
    IN  F[Len(PathwayIdSeq)]

PathwayTables ==
    {PathwayTable(E, nm) : E \in SUBSET PathwayIds, nm \in [PathwayIds -> Names]}

\* The dataset of TestManager.populate: proteins P1..P4 with symbols
\* HGNC:0..HGNC:3, pathways B1 = test:0 = {P1, P2, P3}, B2 = test:1 = {P3, P4}
FixtureProteins ==
    <<[hgnc_symbol |-> "HGNC:0", pathway_ids |-> <<"test:0">>],
      [hgnc_symbol |-> "HGNC:1", pathway_ids |-> <<"test:0">>],
      [hgnc_symbol |-> "HGNC:2", pathway_ids |-> <<"test:0", "test:1">>],
      [hgnc_symbol |-> "HGNC:3", pathway_ids |-> <<"test:1">>]>>

FixturePathways ==
    <<[test_id |-> "test:0", name |-> "Pathway 0"],
      [test_id |-> "test:1", name |-> "Pathway 1"]>>

\* Two protein rows sharing a symbol (hgnc_symbol has no unique constraint),
\* members of different pathways
DuplicateSymbolProteins ==
    <<[hgnc_symbol |-> "HGNC:0", pathway_ids |-> <<"test:0">>],
      [hgnc_symbol |-> "HGNC:0", pathway_ids |-> <<"test:1", "test:0">>],
      [hgnc_symbol |-> "HGNC:1", pathway_ids |-> <<"test:1">>]>>

\* Symbols a caller may ask about: those of the universe and of the dataset
InputSymbols == Symbols \cup {proteins[i].hgnc_symbol : i \in DOMAIN proteins}

InputLists == SeqsUpTo(InputSymbols, MaxInput)

----------------------------------------------------------------------------
(* The model contract (models.py) over the store *)

\* protein.get_pathways_ids(): the identifiers the protein row yields
get_pathways_ids(protein) == proteins[protein].pathway_ids

\* pathway.proteins: the protein rows related to the pathway row
pathway_proteins(pathway) ==
    {i \in DOMAIN proteins : pathway.test_id \in Range(proteins[i].pathway_ids)}

\* pathway.get_gene_set(): the gene set of the pathway, by HGNC symbol
get_gene_set(pathway) ==
    {proteins[i].hgnc_symbol : i \in pathway_proteins(pathway)}

----------------------------------------------------------------------------
(* Session queries *)

Indices(n) == [i \in 1..n |-> i]

\* Query.one_or_none() over the matching rows
one_or_none(rows) ==
    IF rows = <<>> THEN [kind |-> "None", row |-> <<>>]
    ELSE IF Len(rows) = 1 THEN [kind |-> "one", row |-> <<rows[1]>>]
    ELSE [kind |-> "MultipleResultsFound", row |-> <<>>]

\* A lookup that drops the filter when the gene set is empty
query_proteins_all_when_empty(gene_set) ==
    IF gene_set = <<>> THEN Indices(Len(proteins))
    ELSE SelectSeq(Indices(Len(proteins)),
                   LAMBDA i : proteins[i].hgnc_symbol \in Range(gene_set))

\* A lookup that ignores the filter
query_proteins_unfiltered(gene_set) == Indices(Len(proteins))

\* A lookup that joins: one row per matching element of the gene set
RECURSIVE query_proteins_join(_)
query_proteins_join(gene_set) ==
    IF gene_set = <<>> THEN <<>>
    ELSE SelectSeq(Indices(Len(proteins)),
                   LAMBDA i : proteins[i].hgnc_symbol = Head(gene_set))
         \o query_proteins_join(Tail(gene_set))

\* CompathManager._query_proteins_in_hgnc_list: the protein rows whose symbol
\* is IN the gene set, in row order
_query_proteins_in_hgnc_list(gene_set) ==
    SelectSeq(Indices(Len(proteins)),
              LAMBDA i : proteins[i].hgnc_symbol \in Range(gene_set))

\* CompathManager.get_protein_by_hgnc_symbol
get_protein_by_hgnc_symbol(hgnc_symbol) ==
    one_or_none(SelectSeq(Indices(Len(proteins)),
                          LAMBDA i : proteins[i].hgnc_symbol = hgnc_symbol))

\* CompathManager.get_pathway_by_id
get_pathway_by_id(pathway_id) ==
    one_or_none(SelectSeq(pathways, LAMBDA row : row.test_id = pathway_id))

----------------------------------------------------------------------------
(* query_gene_set *)

RECURSIVE chain(_)
\* itertools.chain.from_iterable
chain(lists) ==
    IF lists = <<>> THEN <<>> ELSE Head(lists) \o chain(Tail(lists))

\* A counter that records presence only (counts over a set of the elements)
CounterOfSet(s) == [x \in Range(s) |-> 1]

\* collections.Counter: element -> number of occurrences
Counter(s) == [x \in Range(s) |-> Cardinality({i \in DOMAIN s : s[i] = x})]

RECURSIVE CounterKeys(_)
\* the keys of Counter(s) in the order .items() yields them (first insertion)
CounterKeys(s) ==
    IF s = <<>> THEN <<>>
    ELSE LET r == CounterKeys(SubSeq(s, 1, Len(s) - 1))
         IN  IF s[Len(s)] \in Range(r) THEN r ELSE Append(r, s[Len(s)])

\* the pathway-id lists of the resolved proteins, flattened
pathways_lists(hgnc_gene_symbols) ==
    LET resolved == _query_proteins_in_hgnc_list(hgnc_gene_symbols)
    IN  chain([k \in DOMAIN resolved |-> get_pathways_ids(resolved[k])])

\* the record query_gene_set stores for a fetched pathway
enrichment_record(pathway_id, proteins_mapped, pathway) ==
    [pathway_id |-> pathway_id,
     pathway_name |-> pathway.name,
     mapped_proteins |-> proteins_mapped,
     pathway_size |-> Cardinality(get_gene_set(pathway)),
     pathway_gene_set |-> get_gene_set(pathway)]

FindCall(symbols) == [call |-> "query_proteins", key |-> symbols]
FetchCall(pathway_id) == [call |-> "get_pathway_by_id", key |-> <<pathway_id>>]

\* query_gene_set run to its end on a store that does not change meanwhile:
\* the exception that ended it ("none" if it returned) and the dict built
query_gene_set(hgnc_gene_symbols) ==
    LET counter == Counter(pathways_lists(hgnc_gene_symbols))
        keys == CounterKeys(pathways_lists(hgnc_gene_symbols))
        F[k \in 0..Len(keys)] ==
            IF k = 0 THEN [exc |-> "none", results |-> EmptyMap]
            ELSE IF F[k - 1].exc # "none" THEN F[k - 1]
            ELSE LET pathway == get_pathway_by_id(keys[k])
                 IN  IF pathway.kind = "None"
                     THEN [exc |-> "AttributeError", results |-> F[k - 1].results]
                     ELSE [exc |-> "none",
                           results |-> DictSet(F[k - 1].results, keys[k],
                                               enrichment_record(keys[k],
                                                                 counter[keys[k]],
                                                                 pathway.row[1]))]
    IN  F[Len(keys)]

\* a constructed manager with no call running
NoCall ==
    /\ pc = "idle"
    /\ manager.state = "constructed"

\* query_gene_set, lines 172-182: the bulk lookup and the counter
QueryGeneSetStart(hgnc_gene_symbols) ==
    /\ NoCall
    /\ pc' = "fetching"
    /\ op' = "query_gene_set"
    /\ arg' = hgnc_gene_symbols
    /\ pathway_counter' = Counter(pathways_lists(hgnc_gene_symbols))
    /\ pending' = CounterKeys(pathways_lists(hgnc_gene_symbols))
    /\ enrichment_results' = EmptyMap
    /\ gene_tuples' = <<>>
    /\ gene_sets' = EmptyMap
    /\ exc' = "none"
    /\ calls' = <<FindCall(hgnc_gene_symbols)>>
    /\ dirty' = FALSE
    /\ UNCHANGED <<manager, storeVars>>

\* A loop iteration that consumes the pathway row it fetched (the row leaves
\* the store, as after a session.delete of the fetched object)
QueryGeneSetFetchConsuming ==
    /\ pc = "fetching"
    /\ op = "query_gene_set"
    /\ pending # <<>>
    /\ LET pathway_id == Head(pending)
           pathway == get_pathway_by_id(pathway_id)
       IN  /\ calls' = Append(calls, [call |-> "get_pathway_by_id", key |-> <<pathway_id>>])
           /\ IF pathway.kind = "None"
              THEN /\ pc' = "raised"
                   /\ exc' = "AttributeError"
                   /\ UNCHANGED <<pending, enrichment_results, pathways>>
              ELSE /\ enrichment_results' =
                        DictSet(enrichment_results, pathway_id,
                                enrichment_record(pathway_id,
                                                  pathway_counter[pathway_id],
                                                  pathway.row[1]))
                   /\ pending' = Tail(pending)
                   /\ pathways' = SelectSeq(pathways,
                                            LAMBDA row : row.test_id # pathway_id)
                   /\ UNCHANGED <<pc, exc>>
    /\ UNCHANGED <<manager, proteins, deletes, op, arg, pathway_counter,
                   gene_tuples, gene_sets, dirty>>

\* query_gene_set, lines 184-195: one iteration of the loop
QueryGeneSetFetch ==
    /\ pc = "fetching"
    /\ op = "query_gene_set"
    /\ pending # <<>>
    /\ LET pathway_id == Head(pending)
           pathway == get_pathway_by_id(pathway_id)
       IN  /\ calls' = Append(calls, FetchCall(pathway_id))
           /\ IF pathway.kind = "None"
              THEN \* pathway.get_gene_set() on None
                   /\ pc' = "raised"
                   /\ exc' = "AttributeError"
                   /\ UNCHANGED <<pending, enrichment_results>>
              ELSE /\ enrichment_results' =
                        DictSet(enrichment_results, pathway_id,
                                enrichment_record(pathway_id,
                                                  pathway_counter[pathway_id],
                                                  pathway.row[1]))
                   /\ pending' = Tail(pending)
                   /\ UNCHANGED <<pc, exc>>
    /\ UNCHANGED <<manager, storeVars, op, arg, pathway_counter, gene_tuples,
                   gene_sets, dirty>>

\* query_gene_set, line 197 / query_gene, line 164: the loop is over
Return ==
    /\ pc = "fetching"
    /\ pending = <<>>
    /\ pc' = "returned"
    /\ UNCHANGED <<manager, storeVars, op, arg, pathway_counter, pending,
                   enrichment_results, gene_tuples, gene_sets, exc, calls, dirty>>


----------------------------------------------------------------------------
(* query_gene *)

GetProteinCall(symbol) == [call |-> "get_protein_by_hgnc_symbol", key |-> <<symbol>>]

\* query_gene, lines 153-155: the single-symbol lookup
QueryGeneStart(hgnc_gene_symbol) ==
    /\ NoCall
    /\ op' = "query_gene"
    /\ arg' = <<hgnc_gene_symbol>>
    /\ pathway_counter' = EmptyMap
    /\ enrichment_results' = EmptyMap
    /\ gene_tuples' = <<>>
    /\ gene_sets' = EmptyMap
    /\ calls' = <<GetProteinCall(hgnc_gene_symbol)>>
    /\ dirty' = FALSE
    /\ LET protein == get_protein_by_hgnc_symbol(hgnc_gene_symbol)
       IN  IF protein.kind = "MultipleResultsFound"
           THEN \* one_or_none() raises
                /\ pc' = "raised"
                /\ exc' = "MultipleResultsFound"
                /\ pending' = <<>>
           ELSE IF protein.kind = "None"
           THEN \* protein.get_pathways_ids() on None
                /\ pc' = "raised"
                /\ exc' = "AttributeError"
                /\ pending' = <<>>
           ELSE /\ pc' = "fetching"
                /\ exc' = "none"
                /\ pending' = get_pathways_ids(protein.row[1])
    /\ UNCHANGED <<manager, storeVars>>

\* query_gene, lines 157-162: one iteration of the loop
QueryGeneFetch ==
    /\ pc = "fetching"
    /\ op = "query_gene"
    /\ pending # <<>>
    /\ LET pathway_id == Head(pending)
           pathway == get_pathway_by_id(pathway_id)
       IN  /\ calls' = Append(calls, FetchCall(pathway_id))
           /\ pending' = Tail(pending)
           /\ IF pathway.kind = "None"
              THEN UNCHANGED gene_tuples
              ELSE gene_tuples' =
                     Append(gene_tuples,
                            <<pathway_id, pathway.row[1].name,
                              Cardinality(get_gene_set(pathway.row[1]))>>)
    /\ UNCHANGED <<manager, storeVars, pc, op, arg, pathway_counter,
                   enrichment_results, gene_sets, exc, dirty>>

----------------------------------------------------------------------------
(* export_gene_sets *)

RECURSIVE export_gene_sets(_)
\* the dict comprehension of export_gene_sets over the pathway rows, in row
\* order: a later row with the same name replaces the earlier entry
export_gene_sets(rows) ==
    IF rows = <<>> THEN EmptyMap
    ELSE LET pathway == rows[Len(rows)]
         IN  DictSet(export_gene_sets(SubSeq(rows, 1, Len(rows) - 1)),
                     pathway.name,
                     {proteins[i].hgnc_symbol : i \in pathway_proteins(pathway)})

ListPathwaysCall == [call |-> "list_pathways", key |-> <<>>]

ExportGeneSets ==
    /\ NoCall
    /\ pc' = "returned"
    /\ op' = "export_gene_sets"
    /\ arg' = <<>>
    /\ pathway_counter' = EmptyMap
    /\ pending' = <<>>
    /\ enrichment_results' = EmptyMap
    /\ gene_tuples' = <<>>
    /\ gene_sets' = export_gene_sets(pathways)
    /\ exc' = "none"
    /\ calls' = <<ListPathwaysCall>>
    /\ dirty' = FALSE
    /\ UNCHANGED <<manager, storeVars>>

----------------------------------------------------------------------------
(* The external store *)

RemoveAt(s, i) == SubSeq(s, 1, i - 1) \o SubSeq(s, i + 1, Len(s))

\* The external store removes a pathway row while a call is between its
\* protein lookup and a pathway fetch
DeletePathway(i) ==
    /\ pc = "fetching"
    /\ deletes < MaxDeletes
    /\ i \in DOMAIN pathways
    /\ pathways' = RemoveAt(pathways, i)
    /\ deletes' = deletes + 1
    /\ dirty' = TRUE
    /\ UNCHANGED <<manager, proteins, pc, op, arg, pathway_counter, pending,
                   enrichment_results, gene_tuples, gene_sets, exc, calls>>

----------------------------------------------------------------------------
(* Specification of the queries *)

Init ==
    /\ manager = ManagerOkay
    /\ proteins \in ProteinTables \cup {FixtureProteins, DuplicateSymbolProteins}
    /\ pathways \in PathwayTables
    /\ deletes = 0
    /\ IdleCall

Next ==
    \/ \E hgnc_gene_symbols \in InputLists : QueryGeneSetStart(hgnc_gene_symbols)
    \/ QueryGeneSetFetch
    \/ \E hgnc_gene_symbol \in InputSymbols : QueryGeneStart(hgnc_gene_symbol)
    \/ QueryGeneFetch
    \/ Return
    \/ ExportGeneSets
    \/ \E i \in 1..Len(PathwayIdSeq) : DeletePathway(i)

Spec == Init /\ [][Next]_vars


----------------------------------------------------------------------------
(* Properties of construction (checked under SpecConstruct) *)

Constructed == manager.state # "new"

C9_BadProteinModelTypeError ==
    (/\ Constructed
     /\ manager.pathway_model = "TestPathway"
     /\ manager.protein_model = "BadTestProtein") =>
        /\ manager.state = "failed"
        /\ manager.exc = "TypeError"

----------------------------------------------------------------------------
(* Properties of the queries (checked under Spec) *)

\* the protein rows whose symbol is among the given symbols
Resolved(symbols) ==
    {i \in DOMAIN proteins : proteins[i].hgnc_symbol \in Range(symbols)}

\* the gene set of the pathway identified by p: the distinct symbols of the
\* protein rows that list p
GeneSetOf(p) ==
    {proteins[i].hgnc_symbol :
        i \in {j \in DOMAIN proteins : p \in Range(proteins[j].pathway_ids)}}

GeneSetReturned == op = "query_gene_set" /\ pc = "returned"

\* C2: in query_gene_set a pathway identifier that does not resolve to a
\* pathway row at fetch time is omitted from the result and no error is
\* raised; the other matched pathways are still returned.
C2_DanglingReferenceSkipped ==
    op = "query_gene_set" =>
        /\ pc # "raised"
        /\ exc = "none"
        /\ (pc = "returned" /\ ~dirty) =>
              DOMAIN enrichment_results =
                  {p \in DOMAIN pathway_counter : get_pathway_by_id(p).kind = "one"}

\* C3: every record query_gene_set returns for pathway p has a mapped-protein
\* count equal to the number of distinct resolved proteins whose pathway-id
\* list contains p (once per protein even if the list repeats p), and a
\* pathway_size equal to the cardinality of the gene set of p.
C3_CountsDistinctProteins ==
    GeneSetReturned =>
        \A p \in DOMAIN enrichment_results :
            /\ enrichment_results[p].mapped_proteins =
                  Cardinality({i \in Resolved(arg) :
                                  p \in Range(proteins[i].pathway_ids)})
            /\ enrichment_results[p].pathway_size = Cardinality(GeneSetOf(p))

\* C4: the keys of the result of query_gene_set(S) are pathway identifiers
\* listed by some protein whose symbol is in S, and every record is stored
\* under the key equal to its pathway_id field.
C4_OnlyReachablePathways ==
    GeneSetReturned =>
        \A p \in DOMAIN enrichment_results :
            /\ \E i \in Resolved(arg) : p \in Range(proteins[i].pathway_ids)
            /\ enrichment_results[p].pathway_id = p

\* a returned, non-empty result that leaves out a stored pathway which is
\* listed only by proteins outside the query
C4_Witness ==
    /\ GeneSetReturned
    /\ enrichment_results # EmptyMap
    /\ \E k \in DOMAIN pathways :
          /\ pathways[k].test_id \notin DOMAIN enrichment_results
          /\ \E i \in DOMAIN proteins :
                pathways[k].test_id \in Range(proteins[i].pathway_ids)

IsFetch(c) == c.call = "get_pathway_by_id"

\* C5: query_gene_set with an empty symbol collection, or with symbols that
\* match no protein, does not raise, has nothing to fetch and fetches no
\* pathway record, and returns the empty mapping.
C5_EmptyOrUnmatchedInput ==
    (op = "query_gene_set" /\ Resolved(arg) = {}) =>
        /\ pc \in {"fetching", "returned"}
        /\ exc = "none"
        /\ pending = <<>>
        /\ enrichment_results = EmptyMap
        /\ \A k \in DOMAIN calls : ~IsFetch(calls[k])

\* query_gene_set returned for symbols none of which is in a populated store
C5_Witness ==
    /\ GeneSetReturned
    /\ arg # <<>>
    /\ proteins # <<>>
    /\ pathways # <<>>
    /\ Resolved(arg) = {}
    /\ enrichment_results = EmptyMap

OnFixture ==
    /\ proteins = FixtureProteins
    /\ pathways = FixturePathways
    /\ ~dirty

FixtureQuery == OnFixture /\ GeneSetReturned /\ arg = <<"HGNC:2", "HGNC:3">>

\* C6 as stated: on the fixture dataset query_gene_set(['HGNC:2','HGNC:3'])
\* returns exactly B1 with mapped count 1 and size 3, and B2 with mapped
\* count 1 and size 2.
C6_FixtureAsStated ==
    FixtureQuery =>
        /\ DOMAIN enrichment_results = {"test:0", "test:1"}
        /\ enrichment_results["test:0"].mapped_proteins = 1
        /\ enrichment_results["test:0"].pathway_size = 3
        /\ enrichment_results["test:1"].mapped_proteins = 1
        /\ enrichment_results["test:1"].pathway_size = 2

\* C6 amended: on the fixture dataset query_gene_set(['HGNC:2','HGNC:3'])
\* returns exactly B1 with mapped count 1 and size 3, and B2 with mapped
\* count 2 (P3 and P4) and size 2.
C6_FixtureAmended ==
    FixtureQuery =>
        /\ DOMAIN enrichment_results = {"test:0", "test:1"}
        /\ enrichment_results["test:0"].mapped_proteins = 1
        /\ enrichment_results["test:0"].pathway_size = 3
        /\ enrichment_results["test:1"].mapped_proteins = 2
        /\ enrichment_results["test:1"].pathway_size = 2

\* the fixture query has returned its two records
C6_Witness == FixtureQuery /\ Cardinality(DOMAIN enrichment_results) = 2

\* C7: query_gene(s) returns without raising, for every symbol s (also one
\* matching no protein or several protein rows), one tuple per pathway
\* touched by a protein with symbol s: its pathway ids are the keys of
\* query_gene_set([s]) and each tuple carries that record's name and size.
C7_QueryGeneIsSingleSymbolCase ==
    (op = "query_gene" /\ pc \in {"returned", "raised"}) =>
        /\ pc = "returned"
        /\ ~dirty =>
              LET whole == query_gene_set(arg)
              IN  /\ {gene_tuples[k][1] : k \in DOMAIN gene_tuples} =
                        DOMAIN whole.results
                  /\ \A k \in DOMAIN gene_tuples :
                        /\ gene_tuples[k][2] =
                              whole.results[gene_tuples[k][1]].pathway_name
                        /\ gene_tuples[k][3] =
                              whole.results[gene_tuples[k][1]].pathway_size

FixtureGeneSets ==
    [n \in {"Pathway 0", "Pathway 1"} |->
        IF n = "Pathway 0" THEN {"HGNC:0", "HGNC:1", "HGNC:2"}
        ELSE {"HGNC:2", "HGNC:3"}]

\* C8: export_gene_sets returns one entry per pathway in the store (also
\* when two pathways share a name), each mapping the pathway's name to the
\* distinct symbols of its member proteins; on the fixture dataset it is
\* {"Pathway 0": {HGNC:0, HGNC:1, HGNC:2}, "Pathway 1": {HGNC:2, HGNC:3}}.
C8_ExportOneEntryPerPathway ==
    (op = "export_gene_sets" /\ pc = "returned") =>
        /\ Cardinality(DOMAIN gene_sets) = Len(pathways)
        /\ \A k \in DOMAIN pathways :
              /\ pathways[k].name \in DOMAIN gene_sets
              /\ gene_sets[pathways[k].name] = GeneSetOf(pathways[k].test_id)
        /\ OnFixture => gene_sets = FixtureGeneSets

SymbolSeq == <<"HGNC:0", "HGNC:1", "HGNC:2", "HGNC:3">>

\* the one duplicate-free, ordered input with the same distinct symbols
Distinct(symbols) == SelectSeq(SymbolSeq, LAMBDA x : x \in Range(symbols))

\* C10: duplicate symbols in the input of query_gene_set have no effect: the
\* mapping returned for an input equals the mapping for the duplicate-free
\* input with the same set of distinct symbols (so any two inputs with the
\* same set of distinct symbols yield equal mappings, counts included).
C10_DuplicatesHaveNoEffect ==
    (GeneSetReturned /\ ~dirty) =>
        LET other == query_gene_set(Distinct(arg))
        IN  /\ other.exc = "none"
            /\ other.results = enrichment_results

\* query_gene_set returned a non-empty mapping for an input that repeats a
\* symbol
C10_Witness ==
    /\ GeneSetReturned
    /\ ~dirty
    /\ Len(arg) > Cardinality(Range(arg))
    /\ enrichment_results # EmptyMap


\* a step taken by a running query_gene_set with no change by the external
\* store since the call began
GeneSetStep ==
    /\ op' = "query_gene_set"
    /\ pc' \in {"fetching", "returned", "raised"}
    /\ ~dirty'

\* C11: query_gene_set is a pure read: every step of an invocation leaves the
\* protein and pathway tables (and with them the memberships) unchanged, and
\* once it has returned, a second call on the store as it then is yields the
\* same mapping.
C11_PureRead ==
    /\ [][GeneSetStep => (proteins' = proteins /\ pathways' = pathways)]_vars
    /\ []((GeneSetReturned /\ ~dirty) =>
             query_gene_set(arg) =
                 [exc |-> "none", results |-> enrichment_results])

\* query_gene_set fetched pathway records and returned a non-empty mapping
\* with the store untouched meanwhile
C11_Witness ==
    /\ GeneSetReturned
    /\ ~dirty
    /\ Len(calls) >= 3
    /\ enrichment_results # EmptyMap

\* the distinct pathway identifiers listed by the proteins an input resolves
Touched(symbols) ==
    UNION {Range(proteins[i].pathway_ids) : i \in Resolved(symbols)}

\* C12: every invocation of query_gene_set issues exactly one bulk protein
\* lookup, before any pathway fetch, and then exactly one pathway-record
\* fetch per distinct pathway identifier touched by the resolved proteins.
C12_OneLookupThenOneFetchPerPathway ==
    op = "query_gene_set" =>
        /\ calls # <<>>
        /\ calls[1] = FindCall(arg)
        /\ \A k \in DOMAIN calls : k > 1 => IsFetch(calls[k])
        /\ \A j, k \in DOMAIN calls : calls[j] = calls[k] => j = k
        /\ \A k \in DOMAIN calls :
              IsFetch(calls[k]) => calls[k].key[1] \in Touched(arg)
        /\ pc \in {"returned", "raised"} =>
              \A p \in Touched(arg) :
                  \E k \in DOMAIN calls : calls[k] = FetchCall(p)

====
